---- MODULE Spec2Model ----
(***************************************************************************)
(* django-rsgi: the RSGI handler (src/src/django_rsgi/handler.py).         *)
(*                                                                         *)
(* One request is followed through RSGIHandler.__call__ / handle /         *)
(* create_request / run_get_response / send_response.  The transport       *)
(* (protocol), the application pipeline (get_response_async) and the       *)
(* response iterator are the environment: every call into them either      *)
(* returns or raises, chosen nondeterministically.  Every call of an       *)
(* emission primitive is appended to `calls`, so that what the handler did *)
(* to the transport can be read off the state.                             *)
(***************************************************************************)
EXTENDS Naturals, Sequences, FiniteSets, TLC

(* ------------------------------ bounds --------------------------------- *)

\* Longest request body the transport delivers.
MaxBodyLen == 2

\* Most chunks a streaming response produces.
MaxChunks == 2

\* Requests that run get_normalized_header_name concurrently.
NumWorkers == 2

\* Most calls of get_normalized_header_name one of them makes.
MaxCalls == 2

(* --------------------------- program constants ------------------------- *)

\* RSGIHandler.chunk_size = 2**16
chunk_size == 65536

\* settings.DATA_UPLOAD_MAX_MEMORY_SIZE, the configured maximum body size
\* (a small value here, so that bodies of MaxBodyLen bytes exceed it).
DATA_UPLOAD_MAX_MEMORY_SIZE == 1

(* ------------------------------ values --------------------------------- *)

None == "None"

\* Exceptions raised into the handler by Django-side code (the pipeline, the
\* response iterator): the aborted-request condition and any other Exception.
Raised == {"RequestAborted", "Exception"}

\* How a call into the pipeline or the response iterator ends.
Outcomes == {"ok"} \cup Raised

\* How a call of a transport primitive ends.  RequestAborted is a class of the
\* framework: the transport raises exceptions of its own, never that one.
TransportOutcomes == {"ok", "Exception"}

\* The request bodies protocol() may deliver: 0 .. MaxBodyLen distinct bytes.
Bodies == {[i \in 1..n |-> i] : n \in 0..MaxBodyLen}

\* Scope descriptors: the protocol kind, the root path, and whether every
\* text field the request constructor reads decodes.
Scopes ==
    [proto : {"http", "ws"}, root_path : {"", "/app"}, decodes : BOOLEAN]

\* A chunk of a streaming body: text (str) or binary (bytes).
ChunkValues == {[type |-> "str", data |-> "text"], [type |-> "bytes", data |-> "bin"]}

RECURSIVE SeqsUpTo(_, _)
SeqsUpTo(S, n) ==
    IF n = 0 THEN {<<>>}
    ELSE LET shorter == SeqsUpTo(S, n - 1)
         IN  shorter \cup {Append(s, x) : s \in {t \in shorter : Len(t) = n - 1}, x \in S}

\* Response headers and cookie objects, as response.items() / response.cookies.
HeaderSets ==
    { [headers |-> <<<<"Content-Type", "text/html">>>>, cookies |-> <<>>],
      [headers |-> <<<<"Content-Type", "text/plain">>, <<"X-A", "1">>>>,
       cookies |-> <<[key |-> "key", value |-> "value"], [key |-> "k2", value |-> "v2"]>>] }

\* HttpResponse: buffered content, streaming = False.
BufferedResponses ==
    { [isFile |-> FALSE, hasName |-> FALSE, streaming |-> FALSE,
       status_code |-> st, headers |-> h.headers, cookies |-> h.cookies,
       content |-> c, chunks |-> <<>>, block_size |-> 0]
      : st \in {200, 404}, h \in HeaderSets, c \in {"", "Hello World!"} }

\* StreamingHttpResponse (isFile = FALSE) and FileResponse (isFile = TRUE, whose
\* file_to_stream may or may not have a name); both have streaming = True.
StreamingResponses ==
    { [isFile |-> k[1], hasName |-> k[2], streaming |-> TRUE,
       status_code |-> 200, headers |-> h.headers, cookies |-> h.cookies,
       content |-> "", chunks |-> ch, block_size |-> 0]
      : k \in {<<FALSE, FALSE>>, <<TRUE, FALSE>>, <<TRUE, TRUE>>},
        h \in HeaderSets, ch \in SeqsUpTo(ChunkValues, MaxChunks) }

\* What the application pipeline may return.
Responses == BufferedResponses \cup StreamingResponses

\* HttpResponseBadRequest()
HttpResponseBadRequest ==
    [isFile |-> FALSE, hasName |-> FALSE, streaming |-> FALSE,
     status_code |-> 400, headers |-> <<<<"Content-Type", "text/html">>>>,
     cookies |-> <<>>, content |-> "", chunks |-> <<>>, block_size |-> 0]

\* HttpResponse("413 Payload too large", status=413)
HttpResponsePayloadTooLarge ==
    [isFile |-> FALSE, hasName |-> FALSE, streaming |-> FALSE,
     status_code |-> 413, headers |-> <<<<"Content-Type", "text/html">>>>,
     cookies |-> <<>>, content |-> "413 Payload too large", chunks |-> <<>>,
     block_size |-> 0]

\* The response the framework's own uncaught-exception handling returns.
ServerError500 ==
    [isFile |-> FALSE, hasName |-> FALSE, streaming |-> FALSE,
     status_code |-> 500, headers |-> <<<<"Content-Type", "text/html">>>>,
     cookies |-> <<>>, content |-> "<h1>Server Error (500)</h1>", chunks |-> <<>>,
     block_size |-> 0]

\* HttpResponseServerError(content, content_type="text/plain")
HttpResponseServerError(content) ==
    [isFile |-> FALSE, hasName |-> FALSE, streaming |-> FALSE,
     status_code |-> 500, headers |-> <<<<"Content-Type", "text/plain">>>>,
     cookies |-> <<>>, content |-> content, chunks |-> <<>>, block_size |-> 0]

\* traceback.format_exc(): the rendered trace of the failure being handled.
format_exc == "Traceback (most recent call last): ..."

\* `response = None` in handle: no response object yet.
NoResponse ==
    [isFile |-> FALSE, hasName |-> FALSE, streaming |-> FALSE,
     status_code |-> 0, headers |-> <<>>, cookies |-> <<>>, content |-> "",
     chunks |-> <<>>, block_size |-> 0]

(* ------------------------------- state --------------------------------- *)

(* ------------------------ text as character lists ----------------------- *)

\* Text the request builder computes on is a sequence of one-character
\* strings: "a-b" is <<"a", "-", "b">>.
LowerCase == <<"a", "b", "c", "d", "e", "f", "g", "h", "i", "j", "k", "l", "m", "n", "o", "p", "q", "r", "s", "t", "u", "v", "w", "x", "y", "z">>
UpperCase == <<"A", "B", "C", "D", "E", "F", "G", "H", "I", "J", "K", "L", "M", "N", "O", "P", "Q", "R", "S", "T", "U", "V", "W", "X", "Y", "Z">>
Digits == <<"0", "1", "2", "3", "4", "5", "6", "7", "8", "9">>

\* The position of character c in the sequence t, 0 if it is not there.
IndexIn(t, c) ==
    IF \E i \in 1..Len(t) : t[i] = c THEN CHOOSE i \in 1..Len(t) : t[i] = c ELSE 0

\* str.upper()
upper(s) ==
    [i \in 1..Len(s) |->
        IF IndexIn(LowerCase, s[i]) > 0 THEN UpperCase[IndexIn(LowerCase, s[i])] ELSE s[i]]

\* str.replace(old, new) for one-character old and new.
replace(s, old, new) == [i \in 1..Len(s) |-> IF s[i] = old THEN new ELSE s[i]]

\* str.removeprefix(prefix)
removeprefix(s, prefix) ==
    IF Len(prefix) <= Len(s) /\ SubSeq(s, 1, Len(prefix)) = prefix
    THEN SubSeq(s, Len(prefix) + 1, Len(s))
    ELSE s

\* str.rstrip(chars)
RECURSIVE rstrip(_, _)
rstrip(s, chars) ==
    IF Len(s) > 0 /\ s[Len(s)] \in chars THEN rstrip(SubSeq(s, 1, Len(s) - 1), chars) ELSE s

\* sep.join(values)
RECURSIVE join(_, _)
join(sep, values) ==
    IF Len(values) = 0 THEN <<>>
    ELSE IF Len(values) = 1 THEN values[1]
    ELSE values[1] \o sep \o join(sep, Tail(values))

\* str.rsplit(sep, 1): the text around the last sep, or the text alone.
rsplit1(s, sep) ==
    LET at == {i \in 1..Len(s) : s[i] = sep}
    IN  IF at = {} THEN <<s>>
        ELSE LET k == CHOOSE i \in at : \A j \in at : j <= i
             IN  <<SubSeq(s, 1, k - 1), SubSeq(s, k + 1, Len(s))>>

\* int(text): the number a non-empty run of decimal digits denotes, ValueError
\* for any other text.
RECURSIVE DecimalValue(_)
DecimalValue(s) ==
    IF Len(s) = 0 THEN 0
    ELSE 10 * DecimalValue(SubSeq(s, 1, Len(s) - 1)) + (IndexIn(Digits, s[Len(s)]) - 1)

int(s) ==
    IF Len(s) > 0 /\ \A i \in 1..Len(s) : IndexIn(Digits, s[i]) > 0
    THEN [ok |-> TRUE, value |-> DecimalValue(s)]
    ELSE [ok |-> FALSE, value |-> 0]

(* --------------------------- header-name cache -------------------------- *)

\* _HEADER_NAME_CACHE as the module defines it.
PrepopulatedCache ==
       (<<"a", "c", "c", "e", "p", "t">>
          :> <<"H", "T", "T", "P", "_", "A", "C", "C", "E", "P", "T">>)
    @@ (<<"a", "c", "c", "e", "p", "t", "-", "e", "n", "c", "o", "d", "i", "n", "g">>
          :> <<"H", "T", "T", "P", "_", "A", "C", "C", "E", "P", "T", "_", "E", "N", "C", "O", "D", "I", "N", "G">>)
    @@ (<<"a", "c", "c", "e", "p", "t", "-", "l", "a", "n", "g", "u", "a", "g", "e">>
          :> <<"H", "T", "T", "P", "_", "A", "C", "C", "E", "P", "T", "_", "L", "A", "N", "G", "U", "A", "G", "E">>)
    @@ (<<"a", "u", "t", "h", "o", "r", "i", "z", "a", "t", "i", "o", "n">>
          :> <<"H", "T", "T", "P", "_", "A", "U", "T", "H", "O", "R", "I", "Z", "A", "T", "I", "O", "N">>)
    @@ (<<"c", "o", "n", "n", "e", "c", "t", "i", "o", "n">>
          :> <<"H", "T", "T", "P", "_", "C", "O", "N", "N", "E", "C", "T", "I", "O", "N">>)
    @@ (<<"c", "o", "n", "t", "e", "n", "t", "-", "l", "e", "n", "g", "t", "h">>
          :> <<"C", "O", "N", "T", "E", "N", "T", "_", "L", "E", "N", "G", "T", "H">>)
    @@ (<<"c", "o", "n", "t", "e", "n", "t", "-", "t", "y", "p", "e">>
          :> <<"C", "O", "N", "T", "E", "N", "T", "_", "T", "Y", "P", "E">>)
    @@ (<<"c", "o", "o", "k", "i", "e">>
          :> <<"H", "T", "T", "P", "_", "C", "O", "O", "K", "I", "E">>)
    @@ (<<"h", "o", "s", "t">>
          :> <<"H", "T", "T", "P", "_", "H", "O", "S", "T">>)
    @@ (<<"r", "e", "f", "e", "r", "e", "r">>
          :> <<"H", "T", "T", "P", "_", "R", "E", "F", "E", "R", "E", "R">>)
    @@ (<<"u", "s", "e", "r", "-", "a", "g", "e", "n", "t">>
          :> <<"H", "T", "T", "P", "_", "U", "S", "E", "R", "_", "A", "G", "E", "N", "T">>)
    @@ (<<"x", "-", "r", "e", "a", "l", "-", "i", "p">>
          :> <<"H", "T", "T", "P", "_", "X", "_", "R", "E", "A", "L", "_", "I", "P">>)
    @@ (<<"x", "-", "f", "o", "r", "w", "a", "r", "d", "e", "d", "-", "f", "o", "r">>
          :> <<"H", "T", "T", "P", "_", "X", "_", "F", "O", "R", "W", "A", "R", "D", "E", "D", "_", "F", "O", "R">>)
    @@ (<<"x", "-", "f", "o", "r", "w", "a", "r", "d", "e", "d", "-", "p", "r", "o", "t", "o">>
          :> <<"H", "T", "T", "P", "_", "X", "_", "F", "O", "R", "W", "A", "R", "D", "E", "D", "_", "P", "R", "O", "T", "O">>)
    @@ (<<"x", "-", "f", "o", "r", "w", "a", "r", "d", "e", "d", "-", "h", "o", "s", "t">>
          :> <<"H", "T", "T", "P", "_", "X", "_", "F", "O", "R", "W", "A", "R", "D", "E", "D", "_", "H", "O", "S", "T">>)
    @@ (<<"x", "-", "f", "o", "r", "w", "a", "r", "d", "e", "d", "-", "p", "o", "r", "t">>
          :> <<"H", "T", "T", "P", "_", "X", "_", "F", "O", "R", "W", "A", "R", "D", "E", "D", "_", "P", "O", "R", "T">>)
    @@ (<<"x", "-", "r", "e", "q", "u", "e", "s", "t", "e", "d", "-", "w", "i", "t", "h">>
          :> <<"H", "T", "T", "P", "_", "X", "_", "R", "E", "Q", "U", "E", "S", "T", "E", "D", "_", "W", "I", "T", "H">>)

CONTENT_LENGTH == <<"C", "O", "N", "T", "E", "N", "T", "_", "L", "E", "N", "G", "T", "H">>
CONTENT_TYPE == <<"C", "O", "N", "T", "E", "N", "T", "_", "T", "Y", "P", "E">>
HTTP_COOKIE == <<"H", "T", "T", "P", "_", "C", "O", "O", "K", "I", "E">>
HttpPrefix == <<"H", "T", "T", "P", "_">>

\* Mutant of NormalizeMiss: "-" is not replaced by "_".
NormalizeMiss_NoReplace(name) ==
    IF name = <<"c", "o", "n", "t", "e", "n", "t", "-", "l", "e", "n", "g", "t", "h">> THEN CONTENT_LENGTH
    ELSE IF name = <<"c", "o", "n", "t", "e", "n", "t", "-", "t", "y", "p", "e">> THEN CONTENT_TYPE
    ELSE HttpPrefix \o upper(name)

\* The except KeyError branch of get_normalized_header_name: the value computed
\* for a name the cache does not hold.
NormalizeMiss(name) ==
    IF name = <<"c", "o", "n", "t", "e", "n", "t", "-", "l", "e", "n", "g", "t", "h">> THEN CONTENT_LENGTH
    ELSE IF name = <<"c", "o", "n", "t", "e", "n", "t", "-", "t", "y", "p", "e">> THEN CONTENT_TYPE
    ELSE HttpPrefix \o replace(upper(name), "-", "_")

\* Mutant of StoreEntry: the cache is rebuilt with the new entry alone.
StoreEntry_Rebuild(c, name, res) == name :> res

\* _HEADER_NAME_CACHE[name] = res
StoreEntry(c, name, res) == (name :> res) @@ c

\* get_normalized_header_name run to its end on cache c: the result, the cache
\* it leaves, and whether the name was found.
get_normalized_header_name(c, name) ==
    IF name \in DOMAIN c
    THEN [res |-> c[name], cache |-> c, hit |-> TRUE]
    ELSE [res |-> NormalizeMiss(name),
          cache |-> StoreEntry(c, name, NormalizeMiss(name)), hit |-> FALSE]

\* None of the concurrent requests has called get_normalized_header_name.
Procs == 1..NumWorkers
IdleWorker == [pc |-> "idle", name |-> <<>>, res |-> <<>>, how |-> "none", calls |-> 0]

VARIABLES
    pc,             \* where the request is in __call__ / handle
    scope,          \* the scope descriptor of the request
    settings,       \* FORCE_SCRIPT_NAME and the signals' receivers
    disconnected,   \* protocol.client_disconnect() has resolved
    fetchCalls,     \* how often protocol() was awaited
    fetched,        \* how the await of protocol() ended: None, "ok" or "raised"
    body,           \* the bytes protocol() returned
    bodyFile,       \* the BytesIO over the body: None, "open" or "closed"
    scriptPrefix,   \* the value given to set_script_prefix, or None
    signals,        \* lifecycle signals the handler itself sent, in order
    request,        \* None, or the RSGIRequest built by create_request
    pipelineCalls,  \* how often get_response_async was called
    discAtReturn,   \* disconnected had resolved when the pipeline call returned
    error_response, \* the synthetic response of create_request, or NoResponse
    response,       \* the pipeline's response that handle holds, or NoResponse
    closes,         \* how often response.close() was called
    calls,          \* the emission primitives called on the transport, in order
    idx,            \* chunks of the response sent so far
    iter,           \* the response iterator: None, "open" or "closed"
    exc,            \* the exception in flight in handle, or None
    outcome,        \* how __call__ ended: None, "returned" or "raised"
    channel,        \* the transport response_stream returned: None or "open"
    bodyPos,        \* the read cursor of the BytesIO over the body
    requestBody,    \* <<request.body>> as the pipeline reads it, or <<>>
    uncaught,       \* <<the call of handle_uncaught_exception>>, or <<>>
    cache,          \* _HEADER_NAME_CACHE, the process-wide header-name cache
    workers,        \* the concurrent calls of get_normalized_header_name
    built           \* <<the request RSGIRequest.__init__ built>>, or <<>>

\* The state of the request handler.
handlerVars ==
    <<pc, scope, settings, disconnected, fetchCalls, fetched, body, bodyFile, scriptPrefix,
      signals, request, pipelineCalls, discAtReturn, error_response, response, closes,
      calls, idx, iter, exc, outcome, channel, bodyPos, requestBody, uncaught>>

vars == <<handlerVars, cache, workers, built>>

Settings ==
    [FORCE_SCRIPT_NAME : {"", "/forced"},
     started_receivers : BOOLEAN, finished_receivers : BOOLEAN]

\* The handler before __call__ has run.
InitRest ==
    /\ pc = "call"
    /\ disconnected = FALSE
    /\ fetchCalls = 0
    /\ fetched = None
    /\ body = <<>>
    /\ bodyFile = None
    /\ scriptPrefix = None
    /\ signals = <<>>
    /\ request = None
    /\ pipelineCalls = 0
    /\ discAtReturn = FALSE
    /\ error_response = NoResponse
    /\ response = NoResponse
    /\ closes = 0
    /\ calls = <<>>
    /\ idx = 0
    /\ iter = None
    /\ exc = None
    /\ outcome = None
    /\ channel = None
    /\ bodyPos = 0
    /\ requestBody = <<>>
    /\ uncaught = <<>>

Init ==
    /\ scope \in Scopes
    /\ settings \in Settings
    /\ InitRest
    /\ cache = PrepopulatedCache
    /\ workers = [p \in Procs |-> IdleWorker]
    /\ built = <<>>

(* --------------------------- pure helpers ------------------------------ *)

\* get_script_prefix: settings.FORCE_SCRIPT_NAME if set, else scope.root_path.
get_script_prefix(sc) ==
    IF Len(settings.FORCE_SCRIPT_NAME) > 0 THEN settings.FORCE_SCRIPT_NAME ELSE sc.root_path

\* Mutant of IsHttp: the protocol kind is not looked at.
IsHttp_AnyProto(sc) == TRUE

\* __call__'s guard: the adapter acts on the "http" protocol kind only.
IsHttp(sc) == sc.proto = "http"

\* Mutant of AfterFetchFailure: the failure is swallowed and handling goes on
\* with the empty body.
AfterFetchFailure_GoesOn == [pc |-> "begin", outcome |-> None, bodyFile |-> "open"]

\* handle's `except Exception: return` around the body fetch: handle returns,
\* before the body file exists.
AfterFetchFailure == [pc |-> "done", outcome |-> "returned", bodyFile |-> None]

\* RSGIRequest.__init__(scope, body_file): how construction ends.  It reads the
\* scope's fields and stores body_file as the stream; it never looks at the
\* size of the body, so the only failure is a field that does not decode.
RSGIRequestInit(sc, b) ==
    IF sc.decodes THEN "ok" ELSE "UnicodeDecodeError"

\* create_request: (request, None), or (None, response) for the two exceptions
\* it catches.
create_request(sc, b) ==
    LET r == RSGIRequestInit(sc, b)
    IN  CASE r = "ok" ->
               [request |-> "RSGIRequest", error_response |-> NoResponse]
          [] r = "UnicodeDecodeError" ->
               [request |-> None, error_response |-> HttpResponseBadRequest]
          [] r = "RequestDataTooBig" ->
               [request |-> None, error_response |-> HttpResponsePayloadTooLarge]

\* Mutant of response_headers: the cookie objects are left out.
response_headers_NoCookies(r) == r.headers

\* Morsel.OutputString() of a cookie object.
OutputString(c) == c.key \o "=" \o c.value \o "; Path=/"

\* send_response's header list: response.items(), then one Set-Cookie pair per
\* cookie object.
response_headers(r) ==
    r.headers \o [i \in 1..Len(r.cookies) |-> <<"Set-Cookie", OutputString(r.cookies[i])>>]

\* The guard of the file optimisation: a FileResponse whose file_to_stream has
\* a name.
IsFileBacked(r) == r.isFile /\ r.hasName

\* response.file_to_stream.name
FileName(r) == "/srv/file"

\* One call of an emission primitive, as the transport sees it; `ok` is FALSE
\* when the call raised, `disc` tells whether the client had disconnected.
Event(op, ok, status, headers, data) ==
    [op |-> op, ok |-> ok, status |-> status, headers |-> headers, data |-> data,
     disc |-> disconnected]

\* The attempt at protocol.response_file, made for file-backed responses only.
FileAttempt(r, fileOk) ==
    IF IsFileBacked(r)
    THEN <<Event("response_file", fileOk, r.status_code, response_headers(r), FileName(r))>>
    ELSE <<>>

\* Mutant of ReturnsAfterFile: the `return` after response_file is missing.
ReturnsAfterFile_FallsThrough(r, fileOk) == FALSE

\* send_response returns right after a response_file call that did not raise;
\* an exception of that call is swallowed and emission goes on.
ReturnsAfterFile(r, fileOk) == IsFileBacked(r) /\ fileOk

\* Mutant of GenericCall: the buffered path sends the status and headers and
\* loses the content.
GenericCall_NoContent(r, g) ==
    IF r.streaming
    THEN Event("response_stream", g = "ok", r.status_code, response_headers(r), "")
    ELSE Event("response_bytes", g = "ok", r.status_code, response_headers(r), "")

\* The generic paths: response_stream for a streaming response, response_bytes
\* with the whole content otherwise.
GenericCall(r, g) ==
    IF r.streaming
    THEN Event("response_stream", g = "ok", r.status_code, response_headers(r), "")
    ELSE Event("response_bytes", g = "ok", r.status_code, response_headers(r), r.content)

\* send_response up to its first suspension: the calls it makes and how it
\* goes on ("sent": returned, "streaming": in the chunk loop, "raised").
SendBegin(r, fileOk, g) ==
    IF ReturnsAfterFile(r, fileOk)
    THEN [calls |-> FileAttempt(r, fileOk), next |-> "sent", exc |-> None]
    ELSE [calls |-> FileAttempt(r, fileOk) \o <<GenericCall(r, g)>>,
          next  |-> IF g # "ok" THEN "raised"
                    ELSE IF r.streaming THEN "streaming" ELSE "sent",
          exc   |-> IF g = "ok" THEN None ELSE g]

\* Mutant of ChunkOp: every chunk goes through send_bytes.
ChunkOp_AlwaysBytes(part) == "send_bytes"

\* The primitive a chunk goes through: send_str for str, send_bytes otherwise.
ChunkOp(part) == IF part.type = "str" THEN "send_str" ELSE "send_bytes"

\* run_get_response: tags a FileResponse with the handler's chunk size.
run_get_response(r) ==
    IF r.isFile THEN [r EXCEPT !.block_size = chunk_size] ELSE r

\* How super().handle_uncaught_exception ends: it returns a response or raises.
SuperOutcomes ==
    { [raises |-> FALSE, response |-> ServerError500],
      [raises |-> TRUE, response |-> NoResponse] }

\* Mutant of handle_uncaught_exception: the call of super() is not guarded.
handle_uncaught_exception_NoTry(sup, DEBUG) ==
    IF sup.raises
    THEN [raised |-> "Exception", response |-> NoResponse]
    ELSE [raised |-> None, response |-> sup.response]

\* handle_uncaught_exception: the result of super(), or, when super() raises,
\* a plain-text 500 whose body is the trace under DEBUG and a fixed message
\* otherwise.  `raised` is the exception that leaves the method.
handle_uncaught_exception(sup, DEBUG) ==
    IF sup.raises
    THEN [raised |-> None,
          response |-> HttpResponseServerError(IF DEBUG THEN format_exc
                                               ELSE "Internal Server Error")]
    ELSE [raised |-> None, response |-> sup.response]

\* Mutant of BytesIO: the buffer is filled by writing and is not rewound.
BytesIO_NotRewound(b) == [pos |-> Len(b)]

\* io.BytesIO(body): a buffer over the body with its cursor at offset 0.
BytesIO(b) == [pos |-> 0]

\* stream.read(): the bytes from the cursor to the end; request.body is that
\* read of the stream the request was given.
StreamRead(b, pos) == SubSeq(b, pos + 1, Len(b))

\* Mutant of ExitWith: the body file is closed by a close() at the end of
\* handle, which an exception skips.
ExitWith_NoContextManager(how) == IF how = "returned" THEN "closed" ELSE "open"

\* `with closing(io.BytesIO(body)) as body_file`: leaving the block, by return
\* or by exception, closes the body file.
ExitWith(how) == "closed"

\* Mutant of IterAfterExit: a plain `async for` without aclosing, which leaves
\* the iterator open when the loop is left by an exception.
IterAfterExit_NoAclosing(how) == IF how = "completed" THEN "closed" ELSE "open"

\* `async with aclosing(aiter(response))`: leaving the chunk loop, by
\* exhaustion or by exception, closes the response iterator.
IterAfterExit(how) == "closed"

\* Mutant of SendsRequestFinished: the `if response is None` test is missing.
SendsRequestFinished_AnyResponse(r) == settings.finished_receivers

\* After the try block: the handler sends request_finished itself when it
\* holds no response and the signal has receivers.
SendsRequestFinished(r) == r = NoResponse /\ settings.finished_receivers

\* Mutant of Propagates: there is no `except RequestAborted` clause.
Propagates_NoExcept(e) == e # None

\* `except RequestAborted: pass`: the exceptions that leave handle's try.
Propagates(e) == e \notin {None, "RequestAborted"}

(* ------------------------------ actions -------------------------------- *)

\* __call__: a scope that is not "http" returns at once; otherwise handle runs.
Call ==
    /\ pc = "call"
    /\ IF IsHttp(scope)
       THEN pc' = "handle" /\ outcome' = outcome
       ELSE pc' = "done" /\ outcome' = "returned"
    /\ UNCHANGED <<cache, workers, built, uncaught, channel, bodyPos, requestBody, scope, settings, disconnected, fetchCalls, fetched, body, bodyFile,
                   scriptPrefix, signals, request, pipelineCalls, discAtReturn,
                   error_response, response, closes, calls, idx, iter, exc>>

\* handle: body = await protocol(); any Exception abandons the request.
ReadBody ==
    /\ pc = "handle"
    /\ fetchCalls' = fetchCalls + 1
    /\ \E r \in {"ok", "raised"} :
         /\ fetched' = r
         /\ IF r = "ok"
            THEN /\ body' \in Bodies
                 /\ bodyFile' = "open"
                 /\ bodyPos' = BytesIO(body').pos
                 /\ pc' = "begin"
                 /\ outcome' = outcome
            ELSE /\ body' = body
                 /\ bodyPos' = bodyPos
                 /\ bodyFile' = AfterFetchFailure.bodyFile
                 /\ pc' = AfterFetchFailure.pc
                 /\ outcome' = AfterFetchFailure.outcome
    /\ UNCHANGED <<cache, workers, built, uncaught, channel, requestBody, scope, settings, disconnected, scriptPrefix, signals, request,
                   pipelineCalls, discAtReturn, error_response, response, closes, calls,
                   idx, iter, exc>>

\* handle, inside the with block: set_script_prefix, request_started (when it has
\* receivers), create_request.
BeginRequest ==
    /\ pc = "begin"
    /\ scriptPrefix' = get_script_prefix(scope)
    /\ signals' = IF settings.started_receivers
                  THEN Append(signals, "request_started") ELSE signals
    /\ LET cr == create_request(scope, body)
       IN  /\ request' = cr.request
           /\ error_response' = cr.error_response
           /\ pc' = IF cr.request = None THEN "send_error" ELSE "get_response"
    /\ UNCHANGED <<cache, workers, built, uncaught, channel, bodyPos, requestBody, scope, settings, disconnected, fetchCalls, fetched, body, bodyFile,
                   pipelineCalls, discAtReturn, response, closes, calls, idx, iter, exc,
                   outcome>>

\* handle: await self.send_response(error_response, protocol).  This call is
\* outside the try: an exception leaves handle through the with block.
SendErrorResponse ==
    /\ pc = "send_error"
    /\ \E fileOk \in BOOLEAN, g \in TransportOutcomes :
         LET s == SendBegin(error_response, fileOk, g)
         IN  /\ calls' = calls \o s.calls
             /\ exc' = s.exc
             /\ IF s.next = "raised"
                THEN pc' = "done" /\ outcome' = "raised" /\ bodyFile' = ExitWith("raised")
                ELSE pc' = "close_error" /\ outcome' = outcome /\ bodyFile' = bodyFile
    /\ UNCHANGED <<cache, workers, built, uncaught, channel, bodyPos, requestBody, scope, settings, disconnected, fetchCalls, fetched, body,
                   scriptPrefix, signals, request, pipelineCalls, discAtReturn,
                   error_response, response, closes, idx, iter>>

\* handle: await sync_to_async(error_response.close)(); return.
CloseErrorResponse ==
    /\ pc = "close_error"
    /\ closes' = closes + 1
    /\ bodyFile' = ExitWith("returned")
    /\ pc' = "done"
    /\ outcome' = "returned"
    /\ UNCHANGED <<cache, workers, built, uncaught, channel, bodyPos, requestBody, scope, settings, disconnected, fetchCalls, fetched, body,
                   scriptPrefix, signals, request, pipelineCalls, discAtReturn,
                   error_response, response, calls, idx, iter, exc>>

\* run_get_response: the call of get_response_async is made.
PipelineCall ==
    /\ pc = "get_response"
    /\ pipelineCalls' = pipelineCalls + 1
    /\ requestBody' = <<StreamRead(body, bodyPos)>>
    /\ pc' = "in_pipeline"
    /\ UNCHANGED <<cache, workers, built, uncaught, channel, bodyPos, scope, settings, disconnected, fetchCalls, fetched, body, bodyFile,
                   scriptPrefix, signals, request, discAtReturn, error_response,
                   response, closes, calls, idx, iter, exc, outcome>>

\* run_get_response: the pipeline returns a response, or raises.
PipelineReturn ==
    /\ pc = "in_pipeline"
    /\ \/ \E r \in Responses :
            /\ response' = run_get_response(r)
            /\ discAtReturn' = disconnected
            /\ exc' = exc
            /\ pc' = "send"
       \/ \E e \in Raised :
            /\ response' = response
            /\ discAtReturn' = discAtReturn
            /\ exc' = e
            /\ pc' = "finally"
    /\ UNCHANGED <<cache, workers, built, uncaught, channel, bodyPos, requestBody, scope, settings, disconnected, fetchCalls, fetched, body, bodyFile,
                   scriptPrefix, signals, request, pipelineCalls, error_response,
                   closes, calls, idx, iter, outcome>>

\* A failure inside the pipeline reaches the last-chance handler, and what
\* handle_uncaught_exception returns is the response of the pipeline.
PipelineFailure ==
    /\ pc = "in_pipeline"
    /\ \E sup \in SuperOutcomes, DEBUG \in BOOLEAN :
         LET h == handle_uncaught_exception(sup, DEBUG)
         IN  /\ uncaught' = <<[super |-> sup, DEBUG |-> DEBUG]>>
             /\ IF h.raised = None
                THEN /\ response' = run_get_response(h.response)
                     /\ discAtReturn' = disconnected
                     /\ exc' = exc
                     /\ pc' = "send"
                ELSE /\ response' = response
                     /\ discAtReturn' = discAtReturn
                     /\ exc' = h.raised
                     /\ pc' = "finally"
    /\ UNCHANGED <<cache, workers, built, channel, bodyPos, requestBody, scope, settings,
                   disconnected, fetchCalls,
                   fetched, body, bodyFile, scriptPrefix, signals, request, pipelineCalls,
                   error_response, closes, calls, idx, iter, outcome>>

\* send_response(response, protocol) up to the chunk loop.
SendResponse ==
    /\ pc = "send"
    /\ \E fileOk \in BOOLEAN, g \in TransportOutcomes :
         LET s == SendBegin(response, fileOk, g)
         IN  /\ calls' = calls \o s.calls
             /\ exc' = s.exc
             /\ iter' = IF s.next = "streaming" THEN "open" ELSE iter
             /\ channel' = IF s.next = "streaming" THEN "open" ELSE channel
             /\ pc' = IF s.next = "streaming" THEN "streaming" ELSE "finally"
    /\ UNCHANGED <<cache, workers, built, uncaught, bodyPos, requestBody, scope, settings, disconnected, fetchCalls, fetched, body, bodyFile,
                   scriptPrefix, signals, request, pipelineCalls, discAtReturn,
                   error_response, response, closes, idx, outcome>>

\* One turn of `async for part in content`: the iterator ends, raises, or yields
\* the next chunk, which is sent through send_str or send_bytes.  Leaving the
\* loop closes the iterator (aclosing).
StreamChunk ==
    /\ pc = "streaming"
    /\ IF idx = Len(response.chunks)
       THEN /\ iter' = IterAfterExit("completed")
            /\ pc' = "finally"
            /\ UNCHANGED <<calls, idx, exc>>
       ELSE \E produced \in Outcomes, sent \in TransportOutcomes :
              LET part == response.chunks[idx + 1]
              IN  IF produced # "ok"
                  THEN /\ iter' = IterAfterExit("produce_raised")
                       /\ exc' = produced
                       /\ pc' = "finally"
                       /\ UNCHANGED <<calls, idx>>
                  ELSE /\ calls' = Append(calls, Event(ChunkOp(part), sent = "ok", 0, <<>>,
                                                       part.data))
                       /\ IF sent = "ok"
                          THEN /\ idx' = idx + 1
                               /\ UNCHANGED <<iter, exc, pc>>
                          ELSE /\ iter' = IterAfterExit("send_raised")
                               /\ exc' = sent
                               /\ pc' = "finally"
                               /\ idx' = idx
    /\ UNCHANGED <<cache, workers, built, uncaught, channel, bodyPos, requestBody, scope, settings, disconnected, fetchCalls, fetched, body, bodyFile,
                   scriptPrefix, signals, request, pipelineCalls, discAtReturn,
                   error_response, response, closes, outcome>>

\* The server cancels the task while it is suspended in the chunk loop:
\* CancelledError is raised at the await and leaves the loop through aclosing.
CancelStream ==
    /\ pc = "streaming"
    /\ iter' = IterAfterExit("cancelled")
    /\ exc' = "CancelledError"
    /\ pc' = "finally"
    /\ UNCHANGED <<cache, workers, built, uncaught, channel, bodyPos, requestBody, scope, settings, disconnected, fetchCalls,
                   fetched, body, bodyFile, scriptPrefix, signals, request, pipelineCalls,
                   discAtReturn, error_response, response, closes, calls, idx, outcome>>

\* handle's except / finally and what follows: RequestAborted is suppressed, the
\* response (if any) is closed, request_finished is sent by the handler when there
\* is no response, and the with block closes the body file.
Finally ==
    /\ pc = "finally"
    /\ closes' = IF response # NoResponse THEN closes + 1 ELSE closes
    /\ IF Propagates(exc)
       THEN /\ outcome' = "raised"
            /\ signals' = signals
       ELSE /\ outcome' = "returned"
            /\ signals' = IF SendsRequestFinished(response)
                          THEN Append(signals, "request_finished") ELSE signals
    /\ bodyFile' = ExitWith(outcome')
    /\ pc' = "done"
    /\ UNCHANGED <<cache, workers, built, uncaught, channel, bodyPos, requestBody, scope, settings, disconnected, fetchCalls, fetched, body,
                   scriptPrefix, request, pipelineCalls, discAtReturn, error_response,
                   response, calls, idx, iter, exc>>

\* The transport: the client disconnects at any moment of a request.
ClientDisconnect ==
    /\ pc # "done"
    /\ ~disconnected
    /\ disconnected' = TRUE
    /\ UNCHANGED <<cache, workers, built, uncaught, channel, bodyPos, requestBody, pc, scope, settings, fetchCalls, fetched, body, bodyFile, scriptPrefix,
                   signals, request, pipelineCalls, discAtReturn, error_response,
                   response, closes, calls, idx, iter, exc, outcome>>

Next ==
    \/ Call
    \/ ReadBody
    \/ BeginRequest
    \/ SendErrorResponse
    \/ CloseErrorResponse
    \/ PipelineCall
    \/ PipelineReturn
    \/ PipelineFailure
    \/ SendResponse
    \/ StreamChunk
    \/ CancelStream
    \/ Finally
    \/ ClientDisconnect

Spec == Init /\ [][Next]_vars

(* ----------------------------- request builder -------------------------- *)

\* Keys of META written by RSGIRequest.__init__.
REQUEST_METHOD == <<"R", "E", "Q", "U", "E", "S", "T", "_", "M", "E", "T", "H", "O", "D">>
QUERY_STRING == <<"Q", "U", "E", "R", "Y", "_", "S", "T", "R", "I", "N", "G">>
SCRIPT_NAME == <<"S", "C", "R", "I", "P", "T", "_", "N", "A", "M", "E">>
PATH_INFO == <<"P", "A", "T", "H", "_", "I", "N", "F", "O">>
wsgi_multithread == <<"w", "s", "g", "i", ".", "m", "u", "l", "t", "i", "t", "h", "r", "e", "a", "d">>
wsgi_multiprocess == <<"w", "s", "g", "i", ".", "m", "u", "l", "t", "i", "p", "r", "o", "c", "e", "s", "s">>
REMOTE_ADDR == <<"R", "E", "M", "O", "T", "E", "_", "A", "D", "D", "R">>
REMOTE_HOST == <<"R", "E", "M", "O", "T", "E", "_", "H", "O", "S", "T">>
REMOTE_PORT == <<"R", "E", "M", "O", "T", "E", "_", "P", "O", "R", "T">>
SERVER_NAME == <<"S", "E", "R", "V", "E", "R", "_", "N", "A", "M", "E">>
SERVER_PORT == <<"S", "E", "R", "V", "E", "R", "_", "P", "O", "R", "T">>

\* Header objects of a scope: the names iteration yields, each once, with the
\* values get_all returns for the name.
HeaderLists ==
    { <<>>,
      <<[name |-> <<"x", "-", "c", "u", "s", "t", "o", "m">>, values |-> <<<<"a">>>>]>>,
      <<[name |-> <<"x", "-", "c", "u", "s", "t", "o", "m">>, values |-> <<<<"a">>, <<"b">>>>]>>,
      <<[name |-> <<"x", "-", "a">>, values |-> <<<<"a">>>>], [name |-> <<"x", "_", "a">>, values |-> <<<<"b">>>>]>>,
      <<[name |-> <<"c", "o", "o", "k", "i", "e">>, values |-> <<<<"k", "=", "v", ";", " ">>>>]>>,
      <<[name |-> <<"c", "o", "o", "k", "i", "e">>, values |-> <<<<"k", "=", "v", ";", " ">>, <<"k", "2", "=", "v", "2">>>>]>>,
      <<[name |-> <<"c", "o", "n", "t", "e", "n", "t", "-", "t", "y", "p", "e">>, values |-> <<<<"t", "/", "p">>>>], [name |-> <<"c", "o", "o", "k", "i", "e">>, values |-> <<<<"k", "=", "v">>>>]>> }

\* Scopes handed to the request constructor.
BuilderScopes ==
    [proto : {"http"},
     root_path : {<<>>, <<"/", "a", "p", "p">>},
     path : {<<"/", "a", "p", "p", "/", "x">>, <<"/", "a", "p", "p", "/", "a", "p", "p", "/", "x">>, <<"/", "x">>},
     method : {<<"G", "E", "T">>},
     query_string : {<<>>, <<"a", "=", "1">>},
     client : {<<>>, <<"1", ".", "2", ".", "3", ".", "4", ":", "5", "6">>, <<"[", ":", ":", "1", "]", ":", "8", "0">>, <<"n", "o", "t", "-", "a", "n", "-", "i", "p">>, <<"h", ":", "a", "b", "c">>},
     server : {<<>>, <<"8", ".", "8", ".", "8", ".", "8", ":", "8", "0">>, <<"l", "o", "c", "a", "l", "h", "o", "s", "t">>},
     headers : HeaderLists]

\* Settings the request constructor reads.
BuilderSettings ==
    [FORCE_SCRIPT_NAME : {<<>>, <<"/", "x">>},
     started_receivers : {FALSE}, finished_receivers : {FALSE}]

\* Mutant of PathInfo: every leading occurrence of the script name is removed.
RECURSIVE PathInfo_RemoveAll(_, _)
PathInfo_RemoveAll(path, script_name) ==
    IF Len(script_name) > 0 /\ removeprefix(path, script_name) # path
    THEN PathInfo_RemoveAll(removeprefix(path, script_name), script_name)
    ELSE path

\* path_info: path.removeprefix(script_name) if script_name is not empty.
PathInfo(path, script_name) ==
    IF Len(script_name) > 0 THEN removeprefix(path, script_name) ELSE path

\* Mutant of SplitAddress: the address is split at its first colon.
SplitAddress_FirstColon(addr) ==
    LET at == {i \in 1..Len(addr) : addr[i] = ":"}
    IN  IF at = {} THEN <<addr>>
        ELSE LET k == CHOOSE i \in at : \A j \in at : i <= j
             IN  <<SubSeq(addr, 1, k - 1), SubSeq(addr, k + 1, Len(addr))>>

\* client.rsplit(":", 1) / server.rsplit(":", 1)
SplitAddress(addr) == rsplit1(addr, ":")

\* The client block: unpacking anything but two parts raises ValueError before
\* a key is written; int(port) raises it after REMOTE_ADDR and REMOTE_HOST were
\* written; the except clause then sets REMOTE_ADDR to the raw text.
ClientMeta(client) ==
    IF Len(client) = 0 THEN <<>>
    ELSE LET parts == SplitAddress(client)
         IN  IF Len(parts) # 2 THEN REMOTE_ADDR :> client
             ELSE IF int(parts[2]).ok
                  THEN (REMOTE_ADDR :> parts[1]) @@ (REMOTE_HOST :> parts[1])
                       @@ (REMOTE_PORT :> int(parts[2]).value)
                  ELSE (REMOTE_ADDR :> client) @@ (REMOTE_HOST :> parts[1])

\* The server block; str(port) is the port text itself.
ServerMeta(server) ==
    IF Len(server) = 0
    THEN (SERVER_NAME :> <<"u", "n", "k", "n", "o", "w", "n">>) @@ (SERVER_PORT :> <<"0">>)
    ELSE LET parts == SplitAddress(server)
         IN  IF Len(parts) # 2 THEN SERVER_NAME :> server
             ELSE (SERVER_NAME :> parts[1]) @@ (SERVER_PORT :> parts[2])

\* headers.get_all(name)
get_all(headers, name) ==
    LET at == {i \in 1..Len(headers) : headers[i].name = name}
    IN  IF at = {} THEN <<>> ELSE headers[CHOOSE i \in at : TRUE].values

\* The value stored for one header name: the values joined with ","; for the
\* cookie key stripped of trailing ";" and " " and appended to a stored value
\* with "; "; for another key already stored appended with ",".
MergedValue(meta, corrected_name, values) ==
    LET value == join(<<",">>, values)
    IN  IF corrected_name = HTTP_COOKIE
        THEN LET stripped == rstrip(value, {";", " "})
             IN  IF HTTP_COOKIE \in DOMAIN meta
                 THEN meta[HTTP_COOKIE] \o <<";", " ">> \o stripped
                 ELSE stripped
        ELSE IF corrected_name \in DOMAIN meta
             THEN meta[corrected_name] \o <<",">> \o value
             ELSE value

\* `for name in headers`, from the i-th name on: META and the header-name cache
\* when the loop ends.
RECURSIVE HeaderLoop(_, _, _, _)
HeaderLoop(meta, c, headers, i) ==
    IF i > Len(headers) THEN [META |-> meta, cache |-> c]
    ELSE LET name == headers[i].name
             n == get_normalized_header_name(c, name)
             value == MergedValue(meta, n.res, get_all(headers, name))
         IN  HeaderLoop((n.res :> value) @@ meta, n.cache, headers, i + 1)

\* RSGIRequest.__init__(scope, body_file) run with header-name cache c.
RSGIRequest(sc, c) ==
    LET path == sc.path
        script_name == get_script_prefix(sc)
        path_info == PathInfo(path, script_name)
        seed == (REQUEST_METHOD :> sc.method) @@ (QUERY_STRING :> sc.query_string)
                @@ (SCRIPT_NAME :> script_name) @@ (PATH_INFO :> path_info)
                @@ (wsgi_multithread :> TRUE) @@ (wsgi_multiprocess :> TRUE)
        addressed == ServerMeta(sc.server) @@ ClientMeta(sc.client) @@ seed
        looped == HeaderLoop(addressed, c, sc.headers, 1)
    IN  [path |-> path, script_name |-> script_name, path_info |-> path_info,
         method |-> sc.method, META |-> looped.META, cache |-> looped.cache]

(* ------------------- the request constructor on its own ----------------- *)

\* Header-name caches a constructor may start from: as the module defines it,
\* or already holding a name an earlier request brought.
BuilderCaches ==
    { PrepopulatedCache,
      StoreEntry(PrepopulatedCache, <<"x", "-", "c", "u", "s", "t", "o", "m">>, NormalizeMiss(<<"x", "-", "c", "u", "s", "t", "o", "m">>)) }

BuilderInit ==
    /\ scope \in BuilderScopes
    /\ settings \in BuilderSettings
    /\ InitRest
    /\ cache \in BuilderCaches
    /\ workers = [p \in Procs |-> IdleWorker]
    /\ built = <<>>

\* create_request's RSGIRequest(scope, body_file): the constructor runs to its
\* end without suspending.
Construct ==
    /\ built = <<>>
    /\ LET r == RSGIRequest(scope, cache)
       IN  /\ built' = <<[path |-> r.path, script_name |-> r.script_name,
                         path_info |-> r.path_info, method |-> r.method,
                         META |-> r.META]>>
           /\ cache' = r.cache
    /\ UNCHANGED <<handlerVars, workers>>

BuilderNext == Construct

BuilderSpec == BuilderInit /\ [][BuilderNext]_vars

(* --------------- the header-name cache under concurrent use ------------- *)

\* Wire header names the concurrent requests carry.
HeaderNames ==
    { <<"c", "o", "o", "k", "i", "e">>,
      <<"c", "o", "n", "t", "e", "n", "t", "-", "t", "y", "p", "e">>,
      <<"c", "o", "n", "t", "e", "n", "t", "-", "l", "e", "n", "g", "t", "h">>,
      <<"h", "o", "s", "t">>,
      <<"x", "-", "c", "u", "s", "t", "o", "m">>,
      <<"x", "-", "a">>,
      <<"x", "_", "a">>,
      <<"X", "-", "A">> }

CacheInit ==
    /\ scope = [proto |-> "http", root_path |-> "", decodes |-> TRUE]
    /\ settings = [FORCE_SCRIPT_NAME |-> "", started_receivers |-> FALSE,
                   finished_receivers |-> FALSE]
    /\ InitRest
    /\ cache = PrepopulatedCache
    /\ workers = [p \in Procs |-> IdleWorker]
    /\ built = <<>>

\* get_normalized_header_name up to the assignment to the cache: a hit returns
\* the stored value, a miss computes the value and has yet to store it.
CacheLookup(p) ==
    /\ workers[p].pc = "idle"
    /\ workers[p].calls < MaxCalls
    /\ \E name \in HeaderNames :
         workers' = [workers EXCEPT ![p] =
             IF name \in DOMAIN cache
             THEN [pc |-> "idle", name |-> name, res |-> cache[name], how |-> "hit",
                   calls |-> @.calls + 1]
             ELSE [pc |-> "store", name |-> name, res |-> NormalizeMiss(name),
                   how |-> @.how, calls |-> @.calls]]
    /\ UNCHANGED <<handlerVars, cache, built>>

\* `_HEADER_NAME_CACHE[name] = res; return res`
CacheStore(p) ==
    /\ workers[p].pc = "store"
    /\ cache' = StoreEntry(cache, workers[p].name, workers[p].res)
    /\ workers' = [workers EXCEPT ![p] = [@ EXCEPT !.pc = "idle", !.how = "miss",
                                                  !.calls = @ + 1]]
    /\ UNCHANGED <<handlerVars, built>>

CacheNext ==
    \/ \E p \in Procs : CacheLookup(p)
    \/ \E p \in Procs : CacheStore(p)

CacheSpec == CacheInit /\ [][CacheNext]_vars

(* ------------------------------ claims --------------------------------- *)

\* The three response-level emission primitives, and the two chunk sends.
Primitives == {"response_file", "response_stream", "response_bytes"}
SendOps == {"send_str", "send_bytes"}

IsSend(e) == e.op \in SendOps

\* The calls of `calls` made with the primitives of ops.
CallsOf(ops) == {i \in 1..Len(calls) : calls[i].op \in ops}

\* The chunk sends, in the order they were made.
Sends == SelectSeq(calls, IsSend)

\* The response given to send_response: the synthetic one, or the pipeline's.
Emitted == IF error_response # NoResponse THEN error_response ELSE response

\* send_response has been entered for the response.
SendEntered == pc \in {"close_error", "streaming", "finally", "done"} /\ calls # <<>>

\* C1: for a file-backed response (a FileResponse whose file has a name)
\* response_file is the first primitive tried; when it succeeds it is the only
\* call made for the request; when it raises, the failure is swallowed and
\* exactly one generic primitive (response_stream or response_bytes) is called
\* next; at most one response-level primitive ever completes successfully.
C1_FileFirstNeverDoubleSend ==
    LET n == Len(calls)
        generic == CallsOf({"response_stream", "response_bytes"})
    IN  /\ Cardinality({i \in CallsOf(Primitives) : calls[i].ok}) <= 1
        /\ \A i \in CallsOf({"response_file"}) : i = 1 /\ response.isFile /\ response.hasName
        /\ (response.isFile /\ response.hasName /\ n > 0) => calls[1].op = "response_file"
        /\ (n > 0 /\ calls[1].op = "response_file" /\ calls[1].ok) =>
              /\ n = 1
              /\ exc = None
              /\ pc = "done" => outcome = "returned"
        /\ (n > 0 /\ calls[1].op = "response_file" /\ ~calls[1].ok) =>
              /\ Cardinality(generic) = 1
              /\ 2 \in generic
              /\ (calls[2].ok /\ response.chunks = <<>> /\ pc = "done"
                    /\ exc # "CancelledError") =>
                     (exc = None /\ outcome = "returned")

\* C1 witness: response_file raised, response_stream then ran and the request
\* finished normally.
C1_Witness ==
    /\ pc = "done"
    /\ outcome = "returned"
    /\ Len(calls) = 3
    /\ calls[1].op = "response_file" /\ ~calls[1].ok
    /\ calls[2].op = "response_stream" /\ calls[2].ok
    /\ calls[3].ok

\* The response went (or is going) through the streaming path.
OnStreamPath ==
    /\ response.streaming
    /\ SendEntered
    /\ ~(calls[1].op = "response_file" /\ calls[1].ok)

\* C2: on the streaming path response_stream is called exactly once, before
\* any chunk is sent; the chunk sends are the chunks the response produced, in
\* order, one send per chunk; a str chunk goes through send_str, any other
\* through send_bytes; when emission ends normally every chunk has been sent.
C2_StreamInProductionOrder ==
    LET streams == CallsOf({"response_stream"})
    IN  /\ Cardinality(streams) <= 1
        /\ OnStreamPath => Cardinality(streams) = 1
        /\ \A i \in CallsOf(SendOps) : \E j \in streams : j < i /\ calls[j].ok
        /\ Len(Sends) <= Len(response.chunks)
        /\ \A k \in 1..Len(Sends) :
              /\ Sends[k].data = response.chunks[k].data
              /\ Sends[k].op = "send_str" <=> response.chunks[k].type = "str"
              /\ Sends[k].op = "send_bytes" <=> response.chunks[k].type # "str"
              /\ k < Len(Sends) => Sends[k].ok
        /\ idx = Cardinality({k \in 1..Len(Sends) : Sends[k].ok})
        /\ (OnStreamPath /\ pc \in {"finally", "done"} /\ exc = None) =>
              /\ Len(Sends) = Len(response.chunks)
              /\ \A k \in 1..Len(Sends) : Sends[k].ok

\* C2 witness: a text chunk and then a binary chunk were streamed to the end.
C2_Witness ==
    /\ pc = "done"
    /\ exc = None
    /\ ~response.isFile
    /\ Len(Sends) = 2
    /\ Sends[1].op = "send_str" /\ Sends[1].data = "text"
    /\ Sends[2].op = "send_bytes" /\ Sends[2].data = "bin"

\* C3: for a response that is neither file-backed nor streaming, emission is
\* one response_bytes call with the response's status code, its headers
\* followed by one Set-Cookie pair per cookie, and its whole content; nothing
\* else is ever called on the transport for the request.
C3_BufferedIsOneResponseBytes ==
    LET r == Emitted
    IN  (r # NoResponse /\ ~r.streaming /\ ~(r.isFile /\ r.hasName)) =>
          /\ Len(calls) <= 1
          /\ pc \in {"close_error", "finally", "done"} => Len(calls) = 1
          /\ \A i \in 1..Len(calls) :
                /\ calls[i].op = "response_bytes"
                /\ calls[i].status = r.status_code
                /\ Len(calls[i].headers) = Len(r.headers) + Len(r.cookies)
                /\ SubSeq(calls[i].headers, 1, Len(r.headers)) = r.headers
                /\ \A c \in 1..Len(r.cookies) :
                      calls[i].headers[Len(r.headers) + c][1] = "Set-Cookie"
                /\ calls[i].data = r.content

\* C3 witness: a buffered 404 with a body and cookies was sent and the request
\* finished.
C3_Witness ==
    /\ pc = "done"
    /\ outcome = "returned"
    /\ ~response.streaming
    /\ response.status_code = 404
    /\ response.content = "Hello World!"
    /\ Len(response.cookies) = 2
    /\ Len(calls) = 1
    /\ calls[1].ok

\* C4: if the client-disconnect signal has resolved before the pipeline call
\* returns, no emission primitive is invoked for the request and handling
\* completes without raising.
C4_NoEmissionAfterEarlyDisconnect ==
    discAtReturn => (calls = <<>> /\ outcome # "raised")

\* C5: if the client-disconnect signal resolves while a streaming response is
\* being emitted (after response_stream opened the channel), no chunk send is
\* started after the disconnect and handling completes without raising.
C5_NoChunkSentAfterDisconnect ==
    \A j \in CallsOf({"response_stream"}) :
        (calls[j].ok /\ ~calls[j].disc) =>
            /\ \A i \in CallsOf(SendOps) : ~calls[i].disc
            /\ disconnected => outcome # "raised"

\* C6: a RequestAborted raised by the pipeline call or by the response emission
\* is suppressed: from the abort on no emission primitive is called (so no
\* synthetic error response either), the abort is not replaced by another
\* exception, and handle ends by returning, never by raising.
C6_AbortSuppressed ==
    /\ [](exc = "RequestAborted" =>
            /\ outcome # "raised"
            /\ pc \in {"finally", "done"}
            /\ pc = "done" => outcome = "returned"
            /\ \A i \in 1..Len(calls) : calls[i].status \notin {400, 413, 500})
    /\ [][exc = "RequestAborted" => (calls' = calls /\ exc' = exc)]_vars

\* C6 witness: the response iterator raised RequestAborted after a chunk had
\* been sent, and handle returned.
C6_Witness ==
    /\ pc = "done"
    /\ exc = "RequestAborted"
    /\ outcome = "returned"
    /\ Len(Sends) = 1
    /\ closes = 1

\* The fetched body exceeds the configured maximum body size.
Oversized == fetched = "ok" /\ Len(body) > DATA_UPLOAD_MAX_MEMORY_SIZE

\* C7: for an http request (here one whose scope decodes) whose fetched body
\* exceeds the configured maximum body size the pipeline is never invoked and
\* the response emitted is the 413 response with its fixed body.
C7_OversizedBodyGets413 ==
    (IsHttp(scope) /\ scope.decodes /\ Oversized) =>
        /\ pipelineCalls = 0
        /\ pc = "done" =>
              /\ calls # <<>>
              /\ calls[1].op = "response_bytes"
              /\ calls[1].status = 413
              /\ calls[1].data = HttpResponsePayloadTooLarge.content

\* C8: when request construction fails with a decoding error, create_request
\* returns (None, a 400 response); handle sends exactly that response once,
\* never invokes the pipeline, and returns without raising.
C8_DecodeErrorGets400 ==
    (fetched = "ok" /\ ~scope.decodes /\ pc \in {"send_error", "close_error", "done"}) =>
        /\ request = None
        /\ error_response = HttpResponseBadRequest
        /\ pipelineCalls = 0
        /\ pc \in {"close_error", "done"} =>
              /\ Len(calls) = 1
              /\ calls[1].op = "response_bytes"
              /\ calls[1].status = 400
        /\ outcome # "raised"
        /\ pc = "done" => outcome = "returned"

\* C9: for a scope whose protocol kind is not "http" the call returns at once:
\* the body is not fetched, no lifecycle signal is sent, the script prefix is
\* not set, the pipeline is not invoked and no emission primitive is called.
C9_NonHttpIsNoOp ==
    scope.proto # "http" =>
        /\ pc \in {"call", "done"}
        /\ pc = "done" => outcome = "returned"
        /\ fetchCalls = 0
        /\ fetched = None
        /\ bodyFile = None
        /\ signals = <<>>
        /\ closes = 0
        /\ scriptPrefix = None
        /\ request = None
        /\ pipelineCalls = 0
        /\ calls = <<>>

\* C9 witness: a call with a non-http scope has returned.
C9_Witness == scope.proto = "ws" /\ pc = "done" /\ outcome = "returned"

\* C10: if fetching the body fails, handle returns without raising: no request
\* is built, the pipeline is not invoked, no lifecycle signal is sent (by the
\* handler or by closing a response), no response is emitted, and the fetch was
\* made once.
C10_FetchFailureAbandons ==
    fetched = "raised" =>
        /\ pc = "done"
        /\ outcome = "returned"
        /\ fetchCalls = 1
        /\ request = None
        /\ error_response = NoResponse
        /\ response = NoResponse
        /\ pipelineCalls = 0
        /\ signals = <<>>
        /\ closes = 0
        /\ scriptPrefix = None
        /\ calls = <<>>

\* C10 witness: the body fetch of an http request raised after the client had
\* gone.
C10_Witness == IsHttp(scope) /\ fetched = "raised" /\ disconnected /\ pc = "done"

\* C12: every call of an emission primitive (response_file, response_stream,
\* response_bytes) is handed the complete flattened header list of the response
\* being emitted: each header pair of the response in the response's order,
\* then exactly one ("Set-Cookie", serialized cookie) pair per cookie object,
\* and nothing else; the list is the same for every primitive tried for the
\* response, whatever the outcome of the earlier attempt.
C12_HeadersCompleteAndFlattened ==
    \A i \in CallsOf(Primitives) :
        LET h == calls[i].headers
            r == Emitted
            n == Len(r.headers)
        IN  /\ Len(h) = n + Len(r.cookies)
            /\ \A j \in 1..n : h[j] = r.headers[j]
            /\ \A j \in 1..Len(r.cookies) :
                   h[n + j] = <<"Set-Cookie",
                                r.cookies[j].key \o "=" \o r.cookies[j].value \o "; Path=/">>
            /\ \A k \in CallsOf(Primitives) : calls[k].headers = h

\* C12 witness: a response with two headers and two cookies went through a
\* failed response_file and then response_stream, each given four pairs.
C12_Witness ==
    /\ Len(calls) >= 2
    /\ calls[1].op = "response_file" /\ ~calls[1].ok
    /\ calls[2].op = "response_stream"
    /\ Len(response.cookies) = 2
    /\ Len(calls[1].headers) = 4
    /\ Len(calls[2].headers) = 4

\* The chunk loop of a streaming emission has been left.
LoopLeft == channel # None /\ pc \in {"finally", "done"}

\* C13 as stated: once the chunk loop is left, the write channel that
\* response_stream opened is closed.
C13_ChannelClosedOnLoopExit == LoopLeft => channel = "closed"

\* C13: on every exit of the chunk loop (the loop completes, producing or
\* sending a chunk raises, the task is cancelled) the response's chunk
\* iterator is closed; the write channel returned by response_stream is not
\* closed by the handler and is left as it was opened.
C13_IteratorClosedOnLoopExit == LoopLeft => (iter = "closed" /\ channel = "open")

\* C13 witness: the loop was left by cancellation after a chunk had been sent.
C13_Witness ==
    /\ LoopLeft
    /\ exc = "CancelledError"
    /\ idx > 0
    /\ iter = "closed"

\* C19: the request is constructed only once the body has been fetched, the
\* pipeline is invoked only with a constructed request, no emission primitive
\* is called for the pipeline's response before the pipeline has returned it,
\* and request.body read in the pipeline is the whole payload the transport
\* supplied (the body stream starts at offset 0).
C19_FetchConstructPipelineEmit ==
    /\ (request # None \/ error_response # NoResponse) => fetched = "ok"
    /\ pipelineCalls > 0 => (request # None /\ pipelineCalls = 1)
    /\ pc = "in_pipeline" => (calls = <<>> /\ response = NoResponse)
    /\ (calls # <<>> /\ error_response = NoResponse) =>
           (pipelineCalls = 1 /\ response # NoResponse /\ pc # "in_pipeline")
    /\ bodyFile = "open" => bodyPos = 0
    /\ pipelineCalls > 0 => requestBody = <<body>>

\* C19 witness: a two-byte body was read in full by the pipeline, whose
\* response was then emitted.
C19_Witness ==
    /\ pc = "done"
    /\ Len(body) = MaxBodyLen
    /\ requestBody = <<body>>
    /\ response # NoResponse
    /\ calls # <<>>

\* C20: once the body has been fetched, the body file is closed when handle
\* has finished, whichever way it finished (response sent, synthetic error
\* response sent, request aborted, exception raised by the pipeline or by the
\* emission), and it is open at no moment after handle has finished.
C20_BodyFileClosedOnEveryExit ==
    /\ (pc = "done" /\ fetched = "ok") => bodyFile = "closed"
    /\ bodyFile = "open" => pc # "done"

\* C20 witness: the pipeline raised an unexpected exception, handle raised it
\* on, and the body file is closed.
C20_Witness ==
    /\ pc = "done"
    /\ fetched = "ok"
    /\ outcome = "raised"
    /\ response = NoResponse
    /\ exc = "Exception"
    /\ bodyFile = "closed"

\* The content type a response declares.
ContentTypeOf(r) ==
    {r.headers[i][2] : i \in {j \in 1..Len(r.headers) : r.headers[j][1] = "Content-Type"}}

\* C11: handle_uncaught_exception never raises: whenever it has been called a
\* response came back and no exception left it; when the framework's own
\* handling returned a response that response is the result, and when it
\* raised the result is a 500 response of content type text/plain whose body
\* is the rendered trace if DEBUG is on and "Internal Server Error" otherwise.
C11_UncaughtHandlerNeverRaises ==
    uncaught # <<>> =>
        LET u == uncaught[1]
        IN  /\ response # NoResponse
            /\ pc = "send" => exc = None
            /\ ~u.super.raises => response = u.super.response
            /\ u.super.raises =>
                  /\ response.status_code = 500
                  /\ ContentTypeOf(response) = {"text/plain"}
                  /\ ~response.streaming
                  /\ response.content = IF u.DEBUG
                                        THEN "Traceback (most recent call last): ..."
                                        ELSE "Internal Server Error"

\* C11 witness: the framework's handling raised with DEBUG off and the fixed
\* plain-text 500 was emitted.
C11_Witness ==
    /\ uncaught # <<>>
    /\ uncaught[1].super.raises
    /\ ~uncaught[1].DEBUG
    /\ response.content = "Internal Server Error"
    /\ \E i \in CallsOf({"response_bytes"}) : calls[i].status = 500


\* The META key the specification gives a wire header name: CONTENT_LENGTH and
\* CONTENT_TYPE for the two content headers, else "HTTP_" and the name in upper
\* case with "_" for "-".
CanonicalName(name) ==
    IF name = <<"c", "o", "n", "t", "e", "n", "t", "-", "l", "e", "n", "g", "t", "h">> THEN <<"C", "O", "N", "T", "E", "N", "T", "_", "L", "E", "N", "G", "T", "H">>
    ELSE IF name = <<"c", "o", "n", "t", "e", "n", "t", "-", "t", "y", "p", "e">> THEN <<"C", "O", "N", "T", "E", "N", "T", "_", "T", "Y", "P", "E">>
    ELSE <<"H", "T", "T", "P", "_">> \o
         [i \in 1..Len(name) |->
             IF name[i] = "-" THEN "_"
             ELSE IF \E k \in 1..26 : LowerCase[k] = name[i]
                  THEN UpperCase[CHOOSE k \in 1..26 : LowerCase[k] = name[i]]
                  ELSE name[i]]

\* The values of the header entries from the i-th on that share the META key.
RECURSIVE ValuesFor(_, _, _)
ValuesFor(headers, key, i) ==
    IF i > Len(headers) THEN <<>>
    ELSE (IF CanonicalName(headers[i].name) = key THEN headers[i].values ELSE <<>>)
         \o ValuesFor(headers, key, i + 1)

\* What the merge rule gives for a META key: cookie values, each without its
\* trailing "; ", joined with "; "; the values of any other header joined
\* with ",".
ExpectedHeaderValue(headers, key) ==
    LET vs == ValuesFor(headers, key, 1)
    IN  IF key = <<"H", "T", "T", "P", "_", "C", "O", "O", "K", "I", "E">>
        THEN join(<<";", " ">>, [i \in 1..Len(vs) |-> rstrip(vs[i], {";", " "})])
        ELSE join(<<",">>, vs)

\* C14: in a built request every header's META key holds the merge of all the
\* values received under it: the values of a non-cookie header joined with ","
\* (entries "a" then "b" give "a,b", each value once), the cookie values joined
\* with "; " with trailing "; " trimmed ("k=v; " and "k2=v2" give
\* "k=v; k2=v2").
C14_HeaderMerge ==
    built # <<>> =>
        \A i \in 1..Len(scope.headers) :
            LET key == CanonicalName(scope.headers[i].name)
            IN  /\ key \in DOMAIN built[1].META
                /\ built[1].META[key] = ExpectedHeaderValue(scope.headers, key)

\* C15: every result get_normalized_header_name has returned is CONTENT_LENGTH
\* for content-length, CONTENT_TYPE for content-type and otherwise "HTTP_" with
\* the upper-cased name, "-" replaced by "_", whether the call missed or hit
\* the cache and whatever names were looked up before; two calls with the same
\* name return the same result.
C15_NormalizedNamePolicy ==
    /\ \A p \in Procs :
          workers[p].how # "none" => workers[p].res = CanonicalName(workers[p].name)
    /\ \A p, q \in Procs :
          (workers[p].how # "none" /\ workers[q].how # "none"
             /\ workers[p].name = workers[q].name) => workers[p].res = workers[q].res

\* C15 witness: after other names were added to the cache, one call returned
\* HTTP_X_CUSTOM for x-custom on a miss and another on a hit.
C15_Witness ==
    /\ \E p, q \in Procs :
          /\ workers[p].how = "miss" /\ workers[q].how = "hit"
          /\ workers[p].pc = "idle" /\ workers[q].pc = "idle"
          /\ workers[p].name = <<"x", "-", "c", "u", "s", "t", "o", "m">>
          /\ workers[q].name = <<"x", "-", "c", "u", "s", "t", "o", "m">>
          /\ workers[q].res = <<"H", "T", "T", "P", "_", "X", "_", "C", "U", "S", "T", "O", "M">>
    /\ <<"x", "-", "a">> \in DOMAIN cache

\* The script prefix of the scope in hand, and whether the path starts with it.
PrefixOfScope ==
    IF Len(settings.FORCE_SCRIPT_NAME) > 0 THEN settings.FORCE_SCRIPT_NAME
    ELSE scope.root_path

PathStartsWithPrefix ==
    /\ Len(PrefixOfScope) <= Len(scope.path)
    /\ \A i \in 1..Len(PrefixOfScope) : scope.path[i] = PrefixOfScope[i]

\* C16: in a built request path is the scope's path and META PATH_INFO is
\* path_info; when the script prefix is not empty and the path starts with it,
\* the prefix followed by path_info is the path (the prefix is removed once);
\* otherwise path_info is the path.
C16_PathInfoPrefixRemovedOnce ==
    built # <<>> =>
        /\ built[1].path = scope.path
        /\ built[1].META[PATH_INFO] = built[1].path_info
        /\ built[1].script_name = PrefixOfScope
        /\ IF Len(PrefixOfScope) > 0 /\ PathStartsWithPrefix
           THEN PrefixOfScope \o built[1].path_info = scope.path
           ELSE built[1].path_info = scope.path

\* C16 witness: the path starts with the prefix twice and one occurrence is
\* left in path_info.
C16_Witness ==
    /\ built # <<>>
    /\ scope.root_path = <<"/", "a", "p", "p">>
    /\ Len(settings.FORCE_SCRIPT_NAME) = 0
    /\ scope.path = <<"/", "a", "p", "p", "/", "a", "p", "p", "/", "x">>
    /\ built[1].path_info = <<"/", "a", "p", "p", "/", "x">>

\* Address text: the position of its last colon (0 if none), and whether a
\* non-empty run of decimal digits follows that colon.
LastColon(addr) ==
    IF \E i \in 1..Len(addr) : addr[i] = ":"
    THEN CHOOSE i \in 1..Len(addr) :
            addr[i] = ":" /\ \A j \in (i + 1)..Len(addr) : addr[j] # ":"
    ELSE 0

WellFormedAddress(addr) ==
    /\ LastColon(addr) > 0
    /\ LastColon(addr) < Len(addr)
    /\ \A j \in (LastColon(addr) + 1)..Len(addr) :
          addr[j] \in {"0", "1", "2", "3", "4", "5", "6", "7", "8", "9"}

HostText(addr) == SubSeq(addr, 1, LastColon(addr) - 1)
PortText(addr) == SubSeq(addr, LastColon(addr) + 1, Len(addr))

\* C17: in a built request, a client "host:port" gives REMOTE_ADDR = host and
\* REMOTE_PORT = the port as a number; a client without a colon gives
\* REMOTE_ADDR = the raw text and no REMOTE_PORT key; a server "host:port"
\* gives SERVER_NAME = host and SERVER_PORT = the port text; an absent server
\* gives SERVER_NAME = "unknown" and SERVER_PORT = "0".
C17_AddressParsing ==
    built # <<>> =>
        LET m == built[1].META
            keys == DOMAIN built[1].META
        IN  /\ WellFormedAddress(scope.client) =>
                  /\ REMOTE_ADDR \in keys /\ m[REMOTE_ADDR] = HostText(scope.client)
                  /\ REMOTE_PORT \in keys
                  /\ m[REMOTE_PORT] = DecimalValue(PortText(scope.client))
            /\ (Len(scope.client) > 0 /\ LastColon(scope.client) = 0) =>
                  /\ REMOTE_ADDR \in keys /\ m[REMOTE_ADDR] = scope.client
                  /\ REMOTE_PORT \notin keys
            /\ scope.client = <<"1", ".", "2", ".", "3", ".", "4", ":", "5", "6">> =>
                  (m[REMOTE_ADDR] = <<"1", ".", "2", ".", "3", ".", "4">> /\ m[REMOTE_PORT] = 56)
            /\ WellFormedAddress(scope.server) =>
                  /\ SERVER_NAME \in keys /\ m[SERVER_NAME] = HostText(scope.server)
                  /\ SERVER_PORT \in keys /\ m[SERVER_PORT] = PortText(scope.server)
            /\ Len(scope.server) = 0 =>
                  /\ SERVER_NAME \in keys /\ m[SERVER_NAME] = <<"u", "n", "k", "n", "o", "w", "n">>
                  /\ SERVER_PORT \in keys /\ m[SERVER_PORT] = <<"0">>

\* C17 witness: a client address with colons inside the host and a server
\* "host:port" were parsed into host and port.
C17_Witness ==
    /\ built # <<>>
    /\ scope.client = <<"[", ":", ":", "1", "]", ":", "8", "0">>
    /\ built[1].META[REMOTE_PORT] = 80
    /\ scope.server = <<"8", ".", "8", ".", "8", ".", "8", ":", "8", "0">>
    /\ built[1].META[SERVER_PORT] = <<"8", "0">>

\* C18: whatever the interleaving of the concurrent requests, no step removes
\* a cache entry or changes its value, two requests racing to insert one name
\* hold the same value for it, and in every reachable state each entry's value
\* is the normalization of its key.
C18_CacheAppendOnlyIdempotent ==
    /\ [][\A k \in DOMAIN cache : k \in DOMAIN cache' /\ cache'[k] = cache[k]]_vars
    /\ [](\A k \in DOMAIN cache : cache[k] = CanonicalName(k))
    /\ [](\A p, q \in Procs :
            (workers[p].pc = "store" /\ workers[q].pc = "store"
               /\ workers[p].name = workers[q].name) => workers[p].res = workers[q].res)

\* C18 witness: both requests missed the same name, both stored it, and the
\* cache holds one entry for it beside a name stored earlier.
C18_Witness ==
    /\ workers[1].how = "miss" /\ workers[2].how = "miss"
    /\ workers[1].pc = "idle" /\ workers[2].pc = "idle"
    /\ workers[1].name = <<"x", "-", "a">>
    /\ workers[2].name = <<"x", "-", "a">>
    /\ workers[1].calls = MaxCalls /\ workers[2].calls = MaxCalls
    /\ cache[<<"x", "-", "a">>] = <<"H", "T", "T", "P", "_", "X", "_", "A">>
    /\ Cardinality(DOMAIN cache) > Cardinality(DOMAIN PrepopulatedCache) + 1

\* C21: when handle has finished, every response object it obtained (the
\* pipeline's response or the synthetic 400/413 response) has been closed
\* exactly once, also when sending that response raised or was aborted; no
\* response is closed where none was obtained, and none is closed twice.
C21_EveryResponseClosedOnce ==
    /\ closes <= 1
    /\ Emitted = NoResponse => closes = 0
    /\ (pc = "done" /\ Emitted # NoResponse) => closes = 1

\* How often the handler itself sent request_finished, and how often the
\* request_finished event was signalled: once by each close() of a response
\* and once by each send of the handler.
HandlerFinishedSends ==
    Cardinality({i \in 1..Len(signals) : signals[i] = "request_finished"})

FinishedSignals == closes + HandlerFinishedSends

\* handle has finished without raising for a request whose body was fetched.
FinishedNormally == pc = "done" /\ fetched = "ok" /\ outcome = "returned"

\* request_finished is never signalled twice, and never before request_started.
FinishedOrdered ==
    /\ FinishedSignals <= 1
    /\ \A i \in 1..Len(signals) : signals[i] = "request_finished" => i = Len(signals)
    /\ FinishedSignals > 0 =>
          /\ scriptPrefix # None
          /\ settings.started_receivers =>
                (signals # <<>> /\ signals[1] = "request_started")

\* C22 as stated: when handle has finished without raising for a request whose
\* body was fetched, request_finished was signalled exactly once; it is never
\* signalled twice and never before request_started.
C22_RequestFinishedExactlyOnce ==
    /\ FinishedNormally => FinishedSignals = 1
    /\ FinishedOrdered

\* C22: when handle has finished without raising for a request whose body was
\* fetched, request_finished was signalled exactly once through closing the
\* response if a response (pipeline or synthetic) was obtained; if the
\* pipeline aborted before yielding a response, the handler sent it itself
\* exactly once when the signal has receivers and not at all when it has
\* none; it is never signalled twice, and never before request_started (which
\* is sent only when it has receivers).
C22_RequestFinishedOnceForReceivers ==
    /\ FinishedNormally =>
          /\ Emitted # NoResponse => (closes = 1 /\ HandlerFinishedSends = 0)
          /\ (Emitted = NoResponse /\ settings.finished_receivers) =>
                (closes = 0 /\ HandlerFinishedSends = 1 /\ exc = "RequestAborted")
          /\ (Emitted = NoResponse /\ ~settings.finished_receivers) =>
                FinishedSignals = 0
    /\ FinishedOrdered

\* C22 witness: the pipeline aborted before yielding a response and the
\* handler sent request_finished after request_started.
C22_Witness ==
    /\ FinishedNormally
    /\ exc = "RequestAborted"
    /\ response = NoResponse
    /\ signals = <<"request_started", "request_finished">>
    /\ closes = 0

\* The client keys of the built request's META.
ClientKeys == DOMAIN built[1].META \cap {REMOTE_ADDR, REMOTE_HOST, REMOTE_PORT}

\* C23: in the META of every built request REMOTE_HOST is present only if
\* REMOTE_PORT is present, and a client address that fails to parse (no colon,
\* or a colon followed by a port that is not a number) leaves REMOTE_ADDR,
\* equal to the raw text, as the only client key.
C23_NoPartialClientResult ==
    built # <<>> =>
        /\ REMOTE_HOST \in ClientKeys => REMOTE_PORT \in ClientKeys
        /\ (Len(scope.client) > 0 /\ ~WellFormedAddress(scope.client)) =>
              /\ ClientKeys = {REMOTE_ADDR}
              /\ built[1].META[REMOTE_ADDR] = scope.client

====
